---- MODULE Spec2Model ----
(***************************************************************************)
(* Model of node-sharepoint-2013:                                          *)
(*   - the token service (sharepoint-token): the cached acquisition        *)
(*     promise `tokenRequestPromise`, getToken() and dropToken();          *)
(*   - the list service (sharepoint-lists): getArrayRecursively(), the     *)
(*     recursive page fetcher behind findAllLists() and getList().         *)
(* Promises are modelled by their settlement state; a callback runs in a   *)
(* step of its own, after the promise it is attached to has settled.       *)
(***************************************************************************)
EXTENDS Integers, Sequences, FiniteSets, TLC

VARIABLES
    tokenRequestPromise,  \* the cache slot: Null or the id of a promise
    promises,             \* every promise acquireToken...Async() returned
    now,                  \* new Date().getTime(), in ms
    dropped,              \* history: what the slot held when dropToken() first
                          \* ran since the last getToken(), or "no"
    calls,                \* history: per getToken() call, the promise returned
                          \* and what its caller has observed of it
    lastCall,             \* history: the circumstances of the latest getToken()
    frames,               \* per fetch chain: the getArrayRecursively() activations,
                          \* outermost first
    requests,             \* history, per fetch chain: the requests handed to
                          \* rp(), in issue order
    served,               \* history, per fetch chain: the answers of the
                          \* transport, in order
    outcome,              \* per fetch chain: what the caller has been delivered
    attach                \* the getListWithAttachmentFiles() call: its promise,
                          \* its accessToken, the sharepointList array, and
                          \* the order in which the items got their files

tokenVars == <<tokenRequestPromise, promises, now, dropped, calls, lastCall>>
fetchVars == <<frames, requests, served, outcome, attach>>
vars == <<tokenRequestPromise, promises, now, dropped, calls, lastCall,
          frames, requests, served, outcome, attach>>

(***************************************************************************)
(* Bounds of the model.                                                    *)
(***************************************************************************)
MaxAcquisitions == 2
MaxCalls == 3
MaxPages == 3
MaxItems == 2
MaxAttachments == 2

(***************************************************************************)
(* The token service.                                                      *)
(***************************************************************************)
Null == 0

\* The grace margin added to the parsed expiry date.
GraceMs == 30000

\* The instants at which the clock is read.
Instants == {0, 10000, 30000, 30001, 40000}

\* The shapes of TokenResponse.expiresOn: a date string with milliseconds, a
\* Date object (Date.parse() reads its toString(), which has no milliseconds)
\* and a string that is no date.
ExpiresOnValues ==
    {[fmt |-> "iso", ms |-> 0], [fmt |-> "date", ms |-> 500],
     [fmt |-> "invalid", ms |-> 0]}

NoExpiresOn == [fmt |-> "none", ms |-> 0]

\* Date.parse(expiresOn): milliseconds since the epoch, or NaN.
DateParse(expiresOn) ==
    CASE expiresOn.fmt = "iso"  -> [nan |-> FALSE, ms |-> expiresOn.ms]
      [] expiresOn.fmt = "date" -> [nan |-> FALSE, ms |-> (expiresOn.ms \div 1000) * 1000]
      [] OTHER                  -> [nan |-> TRUE, ms |-> 0]

\* Variant of TokenExpired with a non-strict comparison.
TokenExpiredAtOrAfter(t, expiresOn) ==
    LET parsed == DateParse(expiresOn)
    IN  ~parsed.nan /\ t >= parsed.ms + GraceMs

\* (new Date().getTime()) > (Date.parse(expiresOn) + 30000); every comparison
\* with NaN is false.
TokenExpired(t, expiresOn) ==
    LET parsed == DateParse(expiresOn)
    IN  ~parsed.nan /\ t > parsed.ms + GraceMs

isFulfilled(p) == promises[p].state = "fulfilled"
isRejected(p) == promises[p].state = "rejected"
isCancelled(p) == promises[p].state = "cancelled"
isPending(p) == promises[p].state = "pending"

\* The slot after the first `if` of getToken(): an expired credential is
\* forgotten.
SlotAfterExpiryCheck(slot) ==
    IF slot # Null /\ isFulfilled(slot) /\ TokenExpired(now, promises[slot].expiresOn)
    THEN Null
    ELSE slot

\* Variant of NeedsAcquisition that also acquires while the slot is pending.
NeedsAcquisitionUnlessSettled(slot) ==
    slot = Null \/ ~isFulfilled(slot)

\* Variant of NeedsAcquisition without the isCancelled() / isRejected() tests.
NeedsAcquisitionIgnoringFailure(slot) ==
    slot = Null

\* The condition of the second `if` of getToken().
NeedsAcquisition(slot) ==
    slot = Null \/ isCancelled(slot) \/ isRejected(slot)

\* What the slot holds when getToken() is entered.
SlotKind(slot) ==
    IF slot = Null THEN "empty" ELSE promises[slot].state

NoCall == [n |-> 0, ret |-> Null, fresh |-> FALSE, held |-> Null,
           pre |-> "empty", at |-> 0, afterDrop |-> "no",
           before |-> 0, issued |-> 0]

NewPromise == [state |-> "pending", expiresOn |-> NoExpiresOn]

\* getToken(): the expiry check, the acquisition when one is needed, and the
\* return of the slot's promise to the caller.
GetToken ==
    /\ Len(calls) < MaxCalls
    /\ LET slot == SlotAfterExpiryCheck(tokenRequestPromise)
           fresh == NeedsAcquisition(slot)
           ret == IF fresh THEN Len(promises) + 1 ELSE slot
       IN  /\ fresh => Len(promises) < MaxAcquisitions
           /\ promises' = IF fresh THEN Append(promises, NewPromise) ELSE promises
           /\ tokenRequestPromise' = ret
           /\ calls' = Append(calls, [ret |-> ret, got |-> "none"])
           /\ lastCall' = [n |-> Len(calls) + 1, ret |-> ret, fresh |-> fresh,
                           held |-> tokenRequestPromise,
                           pre |-> SlotKind(tokenRequestPromise),
                           at |-> now, afterDrop |-> dropped,
                           before |-> Len(promises), issued |-> Len(promises')]
    /\ dropped' = "no"
    /\ UNCHANGED <<now>>

\* Variant of DropToken that leaves a pending acquisition in the slot.
DropTokenKeepsPending ==
    /\ tokenRequestPromise' =
           IF tokenRequestPromise # Null /\ isPending(tokenRequestPromise)
           THEN tokenRequestPromise ELSE Null
    /\ dropped' = IF dropped = "no" THEN SlotKind(tokenRequestPromise) ELSE dropped
    /\ UNCHANGED <<promises, now, calls, lastCall>>

\* Variant of DropToken that starts the next acquisition at once.
DropTokenAndRenew ==
    /\ Len(promises) < MaxAcquisitions
    /\ promises' = Append(promises, NewPromise)
    /\ tokenRequestPromise' = Len(promises) + 1
    /\ dropped' = IF dropped = "no" THEN SlotKind(tokenRequestPromise) ELSE dropped
    /\ UNCHANGED <<now, calls, lastCall>>

\* dropToken()
DropToken ==
    /\ tokenRequestPromise' = Null
    /\ dropped' = IF dropped = "no" THEN SlotKind(tokenRequestPromise) ELSE dropped
    /\ UNCHANGED <<promises, now, calls, lastCall>>

\* The identity provider answers the acquisition p with a TokenResponse.
AcquisitionFulfils(p, expiresOn) ==
    /\ isPending(p)
    /\ promises' = [promises EXCEPT ![p] = [state |-> "fulfilled", expiresOn |-> expiresOn]]
    /\ UNCHANGED <<tokenRequestPromise, now, dropped, calls, lastCall>>

\* The acquisition p fails, or is cancelled.
AcquisitionFails(p, how) ==
    /\ isPending(p)
    /\ promises' = [promises EXCEPT ![p].state = how]
    /\ UNCHANGED <<tokenRequestPromise, now, dropped, calls, lastCall>>

\* The caller of the c-th getToken() observes the promise it was returned.
CallerObserves(c) ==
    /\ calls[c].got = "none"
    /\ ~isPending(calls[c].ret)
    /\ calls' = [calls EXCEPT ![c].got = promises[calls[c].ret].state]
    /\ UNCHANGED <<tokenRequestPromise, promises, now, dropped, lastCall>>

\* The access_token of the TokenResponse of the acquisition p: every
\* acquisition is answered with a token of its own.
AccessTokens == <<"t1", "t2", "t3">>
AccessTokenOf(p) == AccessTokens[p]

\* Time passes between two events.
Tick ==
    /\ \E t \in Instants : t > now /\ now' = t
    /\ UNCHANGED <<tokenRequestPromise, promises, dropped, calls, lastCall>>

(***************************************************************************)
(* The list service: getArrayRecursively().                                *)
(***************************************************************************)
\* JavaScript's undefined, as a value and as an element of an array.
Undefined == "undefined"

\* The fetch chains: the one of findAllLists() / getList(),
Chains == {"list"}

\* those of getListAttachmentFiles(), one per item of the list, by position,
ItemChainNames == <<"item1", "item2", "item3", "item4">>
ItemChain(i) == ItemChainNames[i]
ItemChains == {ItemChain(i) : i \in 1..Len(ItemChainNames)}

\* and the single requests of getFiles() and getSubfolders().
FileChains == {"files", "folders"}

AllChains == Chains \cup ItemChains \cup FileChains

\* The access tokens a caller passes in.
Tokens == {"t1", "t2"}

\* The URL of the first page, and the URLs a continuation pointer may hold.
ApiUrl == "u0"
NextUrls == {"u1", "u2"}

\* The errors request-promise rejects with.
TransportErrors == {"RequestError", "StatusCodeError"}

\* The values of `d.results`: an array of rows, or nothing.
Rows == {<<>>, <<"a">>, <<"a", "b">>}
ResultsValues ==
    {[type |-> "array", items |-> r] : r \in Rows} \cup {[type |-> Undefined, items |-> <<>>]}

\* The parsed response bodies: without `d`, or with `d`, whose `results` and
\* `__next` may each be missing; `__next` may also be the empty string.
Bodies ==
    {[d |-> FALSE, results |-> [type |-> Undefined, items |-> <<>>], next |-> Undefined]}
    \cup {[d |-> TRUE, results |-> r, next |-> n] :
              r \in ResultsValues, n \in NextUrls \cup {Undefined, ""}}

\* if (apiResponse.d.__next): the truthiness of a string or undefined.
Truthy(v) == v \notin {Undefined, ""}

\* Variant of Concat that puts the part in front.
ConcatReversed(finalArray, part) ==
    IF part.type = "array" THEN part.items \o finalArray ELSE <<Undefined>> \o finalArray

\* finalArray.concat(part): the elements of an array are appended, any other
\* value is appended as one element.
Concat(finalArray, part) ==
    IF part.type = "array" THEN finalArray \o part.items ELSE Append(finalArray, Undefined)

\* responses.reduce(function(finalArray, part) {...}, [])
RECURSIVE Reduce(_, _)
Reduce(responses, finalArray) ==
    IF responses = <<>> THEN finalArray
    ELSE Reduce(Tail(responses), Concat(finalArray, Head(responses)))

\* A request as logged: where it goes and the token of its Authorization
\* header; `cache` notes what the token service's slot held at that moment.
Request(c, url, token) ==
    [chain |-> c, url |-> url, token |-> token, cache |-> tokenRequestPromise]

\* One activation: the rp() call is outstanding.
Requested(url, token) ==
    [url |-> url, token |-> token, state |-> "requested",
     part |-> [type |-> Undefined, items |-> <<>>], value |-> <<>>, error |-> ""]

NotCalled == [state |-> "idle", value |-> <<>>, error |-> ""]

\* Variant of Joined that answers the rows fetched so far when the recursive
\* call has failed.
PartialOnChildFailure(frame, children) ==
    [frame EXCEPT !.state = "resolved",
                  !.value = IF children # <<>> /\ children[1].state = "rejected"
                            THEN Reduce(<<frame.part>>, <<>>)
                            ELSE Reduce(<<frame.part>>
                                   \o [i \in 1..Len(children) |->
                                          [type |-> "array", items |-> children[i].value]],
                                   <<>>)]

\* The settlement of an activation whose Promise.all() has settled: the merge
\* of its own rows with those of the recursive call, or the rejection of the
\* recursive call.  `children` holds the recursive activation, if there is one.
Joined(frame, children) ==
    IF children # <<>> /\ children[1].state = "rejected"
    THEN [frame EXCEPT !.state = "rejected", !.error = children[1].error]
    ELSE [frame EXCEPT !.state = "resolved",
                       !.value = Reduce(<<frame.part>>
                                   \o [i \in 1..Len(children) |->
                                          [type |-> "array", items |-> children[i].value]],
                                   <<>>)]

\* Variant of Followed that never follows the continuation pointer.
FollowedNever(frame, body) ==
    IF ~body.d
    THEN <<[frame EXCEPT !.state = "rejected", !.error = "TypeError"]>>
    ELSE <<[frame EXCEPT !.state = "joining", !.part = body.results]>>

\* Variant of Followed that makes the recursive call whatever `__next` holds.
FollowedEvenWithoutPointer(frame, body) ==
    IF ~body.d
    THEN <<[frame EXCEPT !.state = "rejected", !.error = "TypeError"]>>
    ELSE <<[frame EXCEPT !.state = "joining", !.part = body.results],
           Requested(body.next, frame.token)>>

\* Variant of Followed whose recursive call takes the token the cache holds.
FollowedWithCachedToken(frame, body) ==
    IF ~body.d
    THEN <<[frame EXCEPT !.state = "rejected", !.error = "TypeError"]>>
    ELSE <<[frame EXCEPT !.state = "joining", !.part = body.results]>>
         \o (IF Truthy(body.next)
             THEN <<Requested(body.next,
                              IF tokenRequestPromise # Null
                                 /\ isFulfilled(tokenRequestPromise)
                              THEN AccessTokenOf(tokenRequestPromise)
                              ELSE frame.token)>>
             ELSE <<>>)

\* The first callback, on a parsed body: reading `d.results` of a body without
\* `d` throws; otherwise the rows are kept and, when `__next` is truthy, the
\* recursive call is made and its request issued.  The activation, followed by
\* the recursive one when there is one.
Followed(frame, body) ==
    IF ~body.d
    THEN <<[frame EXCEPT !.state = "rejected", !.error = "TypeError"]>>
    ELSE <<[frame EXCEPT !.state = "joining", !.part = body.results]>>
         \o (IF Truthy(body.next) THEN <<Requested(body.next, frame.token)>> ELSE <<>>)

\* The requests an action added: one per activation it created.
NewRequests(c, created) ==
    [i \in 1..Len(created) |-> Request(c, created[i].url, created[i].token)]

\* findAllLists() / getList(): the outermost getArrayRecursively() call.
GetArrayRecursively(c, token) ==
    /\ frames[c] = <<>>
    /\ frames' = [frames EXCEPT ![c] = <<Requested(ApiUrl, token)>>]
    /\ requests' = [requests EXCEPT ![c] = @ \o NewRequests(c, <<Requested(ApiUrl, token)>>)]
    /\ outcome' = [outcome EXCEPT ![c].state = "pending"]
    /\ UNCHANGED served

\* The number of pages the server may still announce: it stops handing out
\* continuation pointers at MaxPages.
MayContinue(c) == Len(frames[c]) < MaxPages

\* The transport answers the outstanding request of chain c with a parsed
\* body, and the first callback runs.
TransportAnswers(c, body) ==
    /\ frames[c] # <<>>
    /\ LET k == Len(frames[c])
           after == Followed(frames[c][k], body)
       IN  /\ frames[c][k].state = "requested"
           /\ (body.d /\ body.next # Undefined) => MayContinue(c)
           /\ frames' = [frames EXCEPT ![c] = SubSeq(frames[c], 1, k - 1) \o after]
           /\ requests' = [requests EXCEPT ![c] = @ \o NewRequests(c, Tail(after))]
           /\ served' = [served EXCEPT ![c] = Append(@,
                  [chain |-> c, url |-> frames[c][k].url, ok |-> TRUE,
                   body |-> body, error |-> ""])]
    /\ UNCHANGED outcome

\* The transport fails the outstanding request of chain c.
TransportFails(c, err) ==
    /\ frames[c] # <<>>
    /\ LET k == Len(frames[c])
       IN  /\ frames[c][k].state = "requested"
           /\ frames' = [frames EXCEPT ![c][k].state = "rejected", ![c][k].error = err]
           /\ served' = [served EXCEPT ![c] = Append(@,
                  [chain |-> c, url |-> frames[c][k].url, ok |-> FALSE,
                   body |-> [d |-> FALSE, results |-> [type |-> Undefined, items |-> <<>>],
                             next |-> Undefined],
                   error |-> err])]
    /\ UNCHANGED <<requests, outcome>>

\* The activation of the recursive call made by activation k, if it made one.
RecursiveCall(c, k) ==
    IF k < Len(frames[c]) THEN <<frames[c][k + 1]>> ELSE <<>>

\* Promise.all() of activation k has settled (its recursive call, if any, has
\* settled), and the activation settles: by the second callback, or by the
\* rejection passing it by.
Join(c, k) ==
    /\ k \in 1..Len(frames[c])
    /\ frames[c][k].state = "joining"
    /\ k < Len(frames[c]) => frames[c][k + 1].state \in {"resolved", "rejected"}
    /\ frames' = [frames EXCEPT ![c][k] =
                      Joined(frames[c][k], RecursiveCall(c, k))]
    /\ UNCHANGED <<requests, served, outcome>>

\* The caller is delivered the settlement of the outermost activation.
CallerReceives(c) ==
    /\ outcome[c].state = "pending"
    /\ frames[c][1].state \in {"resolved", "rejected"}
    /\ outcome' = [outcome EXCEPT ![c] =
                       [state |-> frames[c][1].state, value |-> frames[c][1].value,
                        error |-> frames[c][1].error]]
    /\ UNCHANGED <<frames, requests, served>>

(***************************************************************************)
(* The list service: getListWithAttachmentFiles().                         *)
(***************************************************************************)
\* The URL getListAttachmentFiles() builds from the Id of an item.
AttachmentFilesUrl(row) ==
    IF row = "a" THEN "u0/Items(a)/AttachmentFiles" ELSE "u0/Items(b)/AttachmentFiles"

\* An item of sharepointList before its AttachmentFiles property is set.
NotLoaded == [loaded |-> FALSE, files |-> <<>>]

\* The item the fetch chain c was started for.
ItemIndex(c) == CHOOSE i \in 1..Len(ItemChainNames) : ItemChainNames[i] = c

\* Variant of ParentResult that hands over the rows of the first page as soon
\* as they are there.
ParentResultAtFirstPage ==
    IF frames["list"] # <<>> /\ frames["list"][1].state \in {"joining", "resolved"}
    THEN [ready |-> TRUE,
          rows |-> IF frames["list"][1].state = "resolved"
                   THEN frames["list"][1].value
                   ELSE Reduce(<<frames["list"][1].part>>, <<>>)]
    ELSE [ready |-> FALSE, rows |-> <<>>]

\* What the promise of getList() hands to the callback of line 92, once it
\* is fulfilled.
ParentResult ==
    IF frames["list"] # <<>> /\ frames["list"][1].state = "resolved"
    THEN [ready |-> TRUE, rows |-> frames["list"][1].value]
    ELSE [ready |-> FALSE, rows |-> <<>>]

\* sharepointList.map(...): the number of items whose getListAttachmentFiles()
\* call is made; reading `Id` of an element that is undefined throws, and
\* ends the map there.
Started(rows) ==
    IF \E i \in 1..Len(rows) : rows[i] = Undefined
    THEN (CHOOSE i \in 1..Len(rows) :
              rows[i] = Undefined /\ \A j \in 1..(i - 1) : rows[j] # Undefined) - 1
    ELSE Len(rows)

\* Variant of LoadedInto that gives the files to the first item still without.
LoadedIntoFirstFree(list, i, files) ==
    LET j == CHOOSE k \in 1..Len(list) :
                 ~list[k].AttachmentFiles.loaded
                 /\ \A m \in 1..(k - 1) : list[m].AttachmentFiles.loaded
    IN  [list EXCEPT ![j].AttachmentFiles = [loaded |-> TRUE, files |-> files]]

\* sharepointListItem.AttachmentFiles = attachmentFiles, for the i-th item.
LoadedInto(list, i, files) ==
    [list EXCEPT ![i].AttachmentFiles = [loaded |-> TRUE, files |-> files]]

\* The promise of the i-th element of subPromises.
SubPromise(i) ==
    IF attach.list[i].AttachmentFiles.loaded THEN "resolved"
    ELSE IF frames[ItemChain(i)] # <<>> /\ frames[ItemChain(i)][1].state = "rejected"
         THEN "rejected"
         ELSE "pending"

\* Variant of AllOf that waits for every promise and overlooks the rejections.
AllOfSettled(subs) ==
    IF \A i \in 1..Len(subs) : subs[i] # "pending" THEN "resolved" ELSE "pending"

\* Variant of AllOf that is fulfilled with the first promise fulfilled.
AllOfFirst(subs) ==
    IF \E i \in 1..Len(subs) : subs[i] = "rejected" THEN "rejected"
    ELSE IF subs = <<>> \/ \E i \in 1..Len(subs) : subs[i] = "resolved" THEN "resolved"
    ELSE "pending"

\* Promise.all(subPromises): rejected once one is, fulfilled once all are.
AllOf(subs) ==
    IF \E i \in 1..Len(subs) : subs[i] = "rejected" THEN "rejected"
    ELSE IF \A i \in 1..Len(subs) : subs[i] = "resolved" THEN "resolved"
    ELSE "pending"

\* getListWithAttachmentFiles(): the getList() call.
GetListWithAttachmentFiles(token) ==
    /\ attach.state = "idle"
    /\ frames["list"] = <<>>
    /\ frames' = [frames EXCEPT !["list"] = <<Requested(ApiUrl, token)>>]
    /\ requests' = [requests EXCEPT !["list"] =
                        @ \o NewRequests("list", <<Requested(ApiUrl, token)>>)]
    /\ attach' = [attach EXCEPT !.state = "listing", !.token = token]
    /\ UNCHANGED <<served, outcome>>

\* The callback of line 92, on the list: one getListAttachmentFiles() call per
\* item, each issuing its first request, then Promise.all(); or the TypeError
\* of the map, which rejects the promise of getListWithAttachmentFiles().
FanOut ==
    /\ attach.state = "listing"
    /\ ParentResult.ready
    /\ LET rows == ParentResult.rows
           n == Started(rows)
           first == [i \in 1..n |-> Requested(AttachmentFilesUrl(rows[i]), attach.token)]
           started == {ItemChain(i) : i \in 1..n}
       IN  /\ frames' = [c \in AllChains |->
                             IF c \in started THEN <<first[ItemIndex(c)]>> ELSE frames[c]]
           /\ requests' = [c \in AllChains |->
                               IF c \in started
                               THEN requests[c] \o NewRequests(c, <<first[ItemIndex(c)]>>)
                               ELSE requests[c]]
           /\ attach' = [attach EXCEPT
                  !.list = [i \in 1..Len(rows) |->
                               [row |-> rows[i], AttachmentFiles |-> NotLoaded]],
                  !.state = IF n = Len(rows) THEN "fanned" ELSE "rejected",
                  !.error = IF n = Len(rows) THEN "" ELSE "TypeError"]
    /\ UNCHANGED <<served, outcome>>

\* The promise of getList() is rejected: the callback of line 92 is passed by.
ListFailed ==
    /\ attach.state = "listing"
    /\ frames["list"] # <<>>
    /\ frames["list"][1].state = "rejected"
    /\ attach' = [attach EXCEPT !.state = "rejected", !.error = frames["list"][1].error]
    /\ UNCHANGED <<frames, requests, served, outcome>>

\* The callback of line 96, on the attachment files of the i-th item.
AttachmentLoaded(i) ==
    /\ i \in 1..Len(attach.list)
    /\ frames[ItemChain(i)] # <<>>
    /\ frames[ItemChain(i)][1].state = "resolved"
    /\ ~attach.list[i].AttachmentFiles.loaded
    /\ attach' = [attach EXCEPT
           !.list = LoadedInto(attach.list, i, frames[ItemChain(i)][1].value),
           !.order = Append(@, i)]
    /\ UNCHANGED <<frames, requests, served, outcome>>

\* Promise.all(subPromises) settles, and with it the promise of
\* getListWithAttachmentFiles(): fulfilled with sharepointList, or rejected
\* with the error of a rejected sub-promise.
AllSettles ==
    /\ attach.state = "fanned"
    /\ LET subs == [i \in 1..Len(attach.list) |-> SubPromise(i)]
       IN  \/ /\ AllOf(subs) = "resolved"
              /\ attach' = [attach EXCEPT !.state = "resolved"]
           \/ /\ AllOf(subs) = "rejected"
              /\ \E i \in 1..Len(subs) :
                     /\ subs[i] = "rejected"
                     /\ attach' = [attach EXCEPT
                            !.state = "rejected",
                            !.error = frames[ItemChain(i)][1].error]
    /\ UNCHANGED <<frames, requests, served, outcome>>

(***************************************************************************)
(* The files service: getFiles(), getSubfolders() and callApi().           *)
(***************************************************************************)
\* The URL getFiles() and getSubfolders() build.
FolderUrl(c) == IF c = "files" THEN "u0/Files" ELSE "u0/Folders"

\* Variant of CallApiThen that follows the continuation pointer, as the list
\* service does.
CallApiThenFollowing(frame, body) == Followed(frame, body)

\* The then callback of callApi(): `return apiResponse.d.results`, which
\* throws on a body without `d`.  The settled activation, whose `part` is the
\* value returned.
CallApiThen(frame, body) ==
    IF ~body.d
    THEN <<[frame EXCEPT !.state = "rejected", !.error = "TypeError"]>>
    ELSE <<[frame EXCEPT !.state = "resolved", !.part = body.results]>>

\* getFiles() / getSubfolders(): callApi() hands one request to rp().
CallApi(c, token) ==
    /\ frames[c] = <<>>
    /\ frames' = [frames EXCEPT ![c] = <<Requested(FolderUrl(c), token)>>]
    /\ requests' = [requests EXCEPT ![c] =
                        @ \o NewRequests(c, <<Requested(FolderUrl(c), token)>>)]
    /\ UNCHANGED <<served, outcome>>

\* The transport answers the request of callApi(), and its callback runs.
CallApiAnswered(c, body) ==
    /\ frames[c] # <<>>
    /\ frames[c][1].state = "requested"
    /\ LET after == CallApiThen(frames[c][1], body)
       IN  /\ frames' = [frames EXCEPT ![c] = after]
           /\ requests' = [requests EXCEPT ![c] = @ \o NewRequests(c, Tail(after))]
    /\ served' = [served EXCEPT ![c] = Append(@,
           [chain |-> c, url |-> frames[c][1].url, ok |-> TRUE,
            body |-> body, error |-> ""])]
    /\ UNCHANGED outcome

\* The transport fails the request of callApi().
CallApiFails(c, err) ==
    /\ frames[c] # <<>>
    /\ frames[c][1].state = "requested"
    /\ frames' = [frames EXCEPT ![c][1].state = "rejected", ![c][1].error = err]
    /\ served' = [served EXCEPT ![c] = Append(@,
           [chain |-> c, url |-> frames[c][1].url, ok |-> FALSE,
            body |-> [d |-> FALSE, results |-> [type |-> Undefined, items |-> <<>>],
                      next |-> Undefined],
            error |-> err])]
    /\ UNCHANGED <<requests, outcome>>

(***************************************************************************)
(* The specifications.                                                     *)
(***************************************************************************)
\* The token service as the factory returns it, and the list service with
\* nothing called yet.
Init ==
    /\ tokenRequestPromise = Null
    /\ promises = <<>>
    /\ now = 0
    /\ dropped = "no"
    /\ calls = <<>>
    /\ lastCall = NoCall
    /\ frames = [c \in AllChains |-> <<>>]
    /\ requests = [c \in AllChains |-> <<>>]
    /\ served = [c \in AllChains |-> <<>>]
    /\ outcome = [c \in Chains |-> NotCalled]
    /\ attach = [state |-> "idle", token |-> "", list |-> <<>>, order |-> <<>>,
                 error |-> ""]

TokenNext ==
    \/ GetToken /\ UNCHANGED fetchVars
    \/ DropToken /\ UNCHANGED fetchVars
    \/ \E p \in 1..Len(promises), e \in ExpiresOnValues :
           AcquisitionFulfils(p, e) /\ UNCHANGED fetchVars
    \/ \E p \in 1..Len(promises), how \in {"rejected", "cancelled"} :
           AcquisitionFails(p, how) /\ UNCHANGED fetchVars
    \/ \E c \in 1..Len(calls) : CallerObserves(c) /\ UNCHANGED fetchVars
    \/ Tick /\ UNCHANGED fetchVars

\* The token service alone: its callers, the identity provider and the clock.
TokenSpec == Init /\ [][TokenNext]_vars

FetchNext ==
    \/ \E c \in Chains, t \in Tokens : GetArrayRecursively(c, t) /\ UNCHANGED <<tokenVars, attach>>
    \/ \E c \in Chains, b \in Bodies : TransportAnswers(c, b) /\ UNCHANGED <<tokenVars, attach>>
    \/ \E c \in Chains, e \in TransportErrors : TransportFails(c, e) /\ UNCHANGED <<tokenVars, attach>>
    \/ \E c \in Chains, k \in 1..MaxPages : Join(c, k) /\ UNCHANGED <<tokenVars, attach>>
    \/ \E c \in Chains : CallerReceives(c) /\ UNCHANGED <<tokenVars, attach>>

\* The events of chain c that the transport and the event loop bring about.
Progress(c) ==
    \/ \E b \in Bodies : TransportAnswers(c, b) /\ UNCHANGED <<tokenVars, attach>>
    \/ \E e \in TransportErrors : TransportFails(c, e) /\ UNCHANGED <<tokenVars, attach>>
    \/ \E k \in 1..MaxPages : Join(c, k) /\ UNCHANGED <<tokenVars, attach>>
    \/ CallerReceives(c) /\ UNCHANGED <<tokenVars, attach>>

\* The page fetcher alone: its caller, the transport and the event loop.
FetchSpec == Init /\ [][FetchNext]_vars

\* Every outstanding request is eventually answered or failed, and every
\* callback whose promise has settled eventually runs.
FetchLiveSpec ==
    /\ Init /\ [][FetchNext]_vars
    /\ \A c \in Chains : WF_vars(Progress(c))

FilesNext ==
    \/ \E c \in FileChains, t \in Tokens : CallApi(c, t) /\ UNCHANGED <<tokenVars, attach>>
    \/ \E c \in FileChains, b \in Bodies : CallApiAnswered(c, b) /\ UNCHANGED <<tokenVars, attach>>
    \/ \E c \in FileChains, e \in TransportErrors : CallApiFails(c, e) /\ UNCHANGED <<tokenVars, attach>>

\* The files service alone: getFiles() and getSubfolders(), called once each.
FilesSpec == Init /\ [][FilesNext]_vars

\* The answers of the server to getListWithAttachmentFiles(): pages of rows,
\* or a body without `results`, with or without a continuation pointer.
AttachBodies ==
    {b \in Bodies : b.d /\ b.next \in {Undefined, "u1"}}

\* The number of elements a chain has read after the answers so far and `body`.
ReadLength(c, body) ==
    Len(Reduce([i \in 1..Len(served[c]) |-> served[c][i].body.results]
                   \o <<body.results>>, <<>>))

\* The server's side of one answer: the list has MaxItems items at most and
\* an item MaxAttachments attachment files at most, one file a page; a page
\* is empty only if it is the only one.
ServerAnswers(c, body) ==
    /\ body \in AttachBodies
    /\ c = "list" => ReadLength(c, body) <= MaxItems
    /\ c # "list" => /\ body.results.type = "array"
                     /\ Len(body.results.items) <= 1
                     /\ ReadLength(c, body) <= MaxAttachments
    /\ (body.results.type = "array" /\ body.results.items = <<>>) =>
           (served[c] = <<>> /\ body.next = Undefined)

AttachNext ==
    \/ GetListWithAttachmentFiles("t1") /\ UNCHANGED tokenVars
    \/ \E c \in Chains \cup ItemChains, b \in Bodies :
           ServerAnswers(c, b) /\ TransportAnswers(c, b) /\ UNCHANGED <<tokenVars, attach>>
    \/ \E c \in Chains \cup ItemChains :
           TransportFails(c, "StatusCodeError") /\ UNCHANGED <<tokenVars, attach>>
    \/ \E c \in Chains \cup ItemChains : \E k \in DOMAIN frames[c] :
           Join(c, k) /\ UNCHANGED <<tokenVars, attach>>
    \/ FanOut /\ UNCHANGED tokenVars
    \/ ListFailed /\ UNCHANGED tokenVars
    \/ \E i \in 1..MaxItems : AttachmentLoaded(i) /\ UNCHANGED tokenVars
    \/ AllSettles /\ UNCHANGED tokenVars

\* getListWithAttachmentFiles() alone: its caller, the transport and the
\* event loop.
AttachSpec == Init /\ [][AttachNext]_vars

\* A page of rows, with its continuation pointer.
Page(rows, next) ==
    [d |-> TRUE, results |-> [type |-> "array", items |-> rows], next |-> next]

\* A server with a list of two items in two pages, the first item with two
\* attachment files in two pages and the others with none: its answer to
\* the next request of a chain.
ServerPage(c) ==
    IF c = "list"
    THEN IF served[c] = <<>> THEN Page(<<"a">>, "u1") ELSE Page(<<"b">>, Undefined)
    ELSE IF c = ItemChain(1)
         THEN IF served[c] = <<>> THEN Page(<<"a">>, "u1") ELSE Page(<<"a">>, Undefined)
         ELSE Page(<<>>, Undefined)

\* A caller of getToken() that got the token passes it to
\* getListWithAttachmentFiles().
UseToken(c) ==
    /\ calls[c].got = "fulfilled"
    /\ GetListWithAttachmentFiles(AccessTokenOf(calls[c].ret))

UseNext ==
    \/ GetToken /\ UNCHANGED fetchVars
    \/ DropToken /\ UNCHANGED fetchVars
    \/ \E p \in 1..Len(promises) :
           AcquisitionFulfils(p, [fmt |-> "iso", ms |-> 0]) /\ UNCHANGED fetchVars
    \/ \E c \in 1..Len(calls) : CallerObserves(c) /\ UNCHANGED fetchVars
    \/ \E c \in 1..Len(calls) : UseToken(c) /\ UNCHANGED tokenVars
    \/ \E c \in Chains \cup ItemChains :
           TransportAnswers(c, ServerPage(c)) /\ UNCHANGED <<tokenVars, attach>>
    \/ \E c \in Chains \cup ItemChains : \E k \in DOMAIN frames[c] :
           Join(c, k) /\ UNCHANGED <<tokenVars, attach>>
    \/ FanOut /\ UNCHANGED tokenVars
    \/ \E i \in 1..Len(attach.list) : AttachmentLoaded(i) /\ UNCHANGED tokenVars
    \/ AllSettles /\ UNCHANGED tokenVars

\* The token service and getListWithAttachmentFiles() together: the callers,
\* the identity provider, the server and the event loop.
UseSpec == Init /\ [][UseNext]_vars

\* The steps the event loop takes by itself once their promises have settled:
\* the callbacks of getArrayRecursively() and of getListWithAttachmentFiles().
AttachProgress ==
    \/ \E c \in Chains \cup ItemChains : \E k \in DOMAIN frames[c] :
           Join(c, k) /\ UNCHANGED <<tokenVars, attach>>
    \/ FanOut /\ UNCHANGED tokenVars
    \/ ListFailed /\ UNCHANGED tokenVars
    \/ \E i \in 1..MaxItems : AttachmentLoaded(i) /\ UNCHANGED tokenVars
    \/ AllSettles /\ UNCHANGED tokenVars

\* The same, with an event loop that runs every callback that is due.
AttachLiveSpec == AttachSpec /\ WF_vars(AttachProgress)

(***************************************************************************)
(* Properties of the token service.                                        *)
(***************************************************************************)
InFlight == {p \in 1..Len(promises) : isPending(p)}

\* C1: a getToken() call that finds the slot holding a pending acquisition
\* (so no dropToken() ran since the previous call) issues no acquisition
\* request and returns that same pending promise, the one the previous call
\* returned.
C1_SingleFlight ==
    (lastCall.n > 0 /\ lastCall.pre = "pending") =>
        /\ ~lastCall.fresh
        /\ lastCall.issued = lastCall.before
        /\ lastCall.afterDrop = "no"
        /\ lastCall.n > 1
        /\ lastCall.ret = calls[lastCall.n - 1].ret
        /\ lastCall.ret = lastCall.held

\* Three calls while the first acquisition is pending: one request, one promise.
C1_Witness ==
    /\ lastCall.n = 3
    /\ lastCall.pre = "pending"
    /\ Len(promises) = 1
    /\ calls[1].ret = calls[3].ret /\ calls[2].ret = calls[3].ret

\* C2: at most one acquisition is issued and not yet settled, in every
\* reachable state.
C2_AtMostOneInFlight == Cardinality(InFlight) <= 1

\* C3: a getToken() call that finds a fulfilled credential in the slot starts
\* a fresh acquisition exactly when the time of the call is strictly after
\* Date.parse(expiresOn) + 30000 ms; otherwise it issues nothing and returns
\* the cached promise.
C3_ExpiryWithGrace ==
    (lastCall.n > 0 /\ lastCall.pre = "fulfilled") =>
        LET parsed == DateParse(promises[lastCall.held].expiresOn)
            late == ~parsed.nan /\ lastCall.at > parsed.ms + 30000
        IN  /\ lastCall.fresh <=> late
            /\ lastCall.issued = lastCall.before + (IF late THEN 1 ELSE 0)
            /\ ~late => lastCall.ret = lastCall.held
            /\ late => lastCall.ret # lastCall.held

\* The boundary: now = expiresOn + 30000 ms, and the cached credential is served.
C3_Witness ==
    /\ lastCall.n > 0
    /\ lastCall.pre = "fulfilled"
    /\ promises[lastCall.held].expiresOn = [fmt |-> "iso", ms |-> 0]
    /\ lastCall.at = 30000
    /\ ~lastCall.fresh
    /\ lastCall.ret = lastCall.held

\* C4: a getToken() call that follows a dropToken() with no getToken() in
\* between issues a new acquisition request, whatever the slot held when it
\* was dropped.
C4_DropForcesAcquisition ==
    (lastCall.n > 0 /\ lastCall.afterDrop # "no") =>
        /\ lastCall.fresh
        /\ lastCall.held = Null
        /\ lastCall.issued = lastCall.before + 1
        /\ lastCall.ret = lastCall.issued

\* A fulfilled credential that has not expired is dropped, and the next
\* getToken() acquires again.
C4_Witness ==
    /\ lastCall.n > 0
    /\ lastCall.afterDrop = "fulfilled"
    /\ lastCall.at = 0
    /\ lastCall.fresh

\* C5: a caller that has observed the promise it was returned has observed
\* that promise's own outcome, so the failure of an acquisition reaches every
\* caller that awaits it; and a getToken() call that finds a rejected or
\* cancelled promise in the slot starts a new acquisition and returns the new
\* promise, not the failed one.
C5_FailureSurfacesAndRetries ==
    /\ \A c \in 1..Len(calls) :
           calls[c].got # "none" => calls[c].got = promises[calls[c].ret].state
    /\ (lastCall.n > 0 /\ lastCall.pre \in {"rejected", "cancelled"}) =>
           /\ lastCall.fresh
           /\ lastCall.issued = lastCall.before + 1
           /\ lastCall.ret = lastCall.issued
           /\ lastCall.ret # lastCall.held

\* Two callers were given the acquisition that failed, both have observed the
\* failure, and the next getToken() has started another acquisition.
C5_Witness ==
    /\ lastCall.n = 3
    /\ lastCall.pre = "rejected"
    /\ lastCall.fresh
    /\ calls[1].ret = lastCall.held /\ calls[1].got = "rejected"
    /\ calls[2].ret = lastCall.held /\ calls[2].got = "rejected"

\* C17: callers observe the outcome of the promise they were returned, also
\* when it was dropped from the slot meanwhile; the slot holds nothing or the
\* acquisition started last; and a getToken() call made after a dropToken()
\* is returned an acquisition started after every one returned before, as is
\* every later call: the outcome of a superseded acquisition is not served
\* again.
C17_SupersededNeverServed ==
    /\ \A c \in 1..Len(calls) :
           calls[c].got # "none" => calls[c].got = promises[calls[c].ret].state
    /\ tokenRequestPromise \in {Null, Len(promises)}
    /\ \A i, j \in 1..Len(calls) : i < j => calls[i].ret <= calls[j].ret
    /\ (lastCall.n > 0 /\ lastCall.afterDrop # "no") =>
           \A i \in 1..(lastCall.n - 1) : calls[i].ret < lastCall.ret

\* The first acquisition was dropped while pending and has since fulfilled;
\* its caller has observed that, while the slot holds the second acquisition,
\* still pending, which the call after the drop was returned.
C17_Witness ==
    /\ lastCall.n = 2
    /\ lastCall.afterDrop = "pending"
    /\ calls[1].ret = 1 /\ calls[1].got = "fulfilled"
    /\ calls[2].ret = 2 /\ isPending(2)
    /\ tokenRequestPromise = 2

\* C18: the number of acquisition requests grows only in a step that is a
\* getToken() call, and then by one; so it never exceeds the number of
\* getToken() calls.
C18_AcquiresOnlyInGetToken ==
    /\ [](Len(promises) <= Len(calls))
    /\ [][Len(promises') # Len(promises) =>
              /\ Len(calls') = Len(calls) + 1
              /\ Len(promises') = Len(promises) + 1]_vars

\* The only acquisition has failed, the slot was dropped and the clock is past
\* every expiry: two calls were made and still one request was issued.
C18_Witness ==
    /\ Len(calls) = 2
    /\ Len(promises) = 1
    /\ isRejected(1)
    /\ dropped # "no"
    /\ now = 40000

(***************************************************************************)
(* Properties of the page fetcher.                                         *)
(***************************************************************************)
RequestsOf(c) == requests[c]
ServedOf(c) == served[c]

\* The answer is a page: a parsed body with `d` and an array `d.results`.
IsPage(a) == a.ok /\ a.body.d /\ a.body.results.type = "array"

HasPointer(a) == a.ok /\ a.body.d /\ a.body.next \notin {"undefined", ""}

\* The rows of the pages, page after page.
RECURSIVE RowsOf(_)
RowsOf(pages) ==
    IF pages = <<>> THEN <<>> ELSE Head(pages).body.results.items \o RowsOf(Tail(pages))

\* C6: when the fetch of a chain of N pages (continuation pointers on pages
\* 1..N-1 only) has delivered its result, N requests were issued and the
\* result is the rows of page 1, then those of page 2, ..., then those of
\* page N: nothing dropped, reordered or removed as a duplicate.
C6_PagesConcatenated ==
    \A c \in Chains :
        LET pages == ServedOf(c)
        IN  (outcome[c].state = "resolved" /\ \A i \in 1..Len(pages) : IsPage(pages[i])) =>
                /\ Len(pages) >= 1
                /\ \A i \in 1..Len(pages) : HasPointer(pages[i]) <=> i < Len(pages)
                /\ Len(RequestsOf(c)) = Len(pages)
                /\ outcome[c].value = RowsOf(pages)

\* Three pages, two rows, one row (a duplicate of an earlier one), two rows.
C6_Witness ==
    LET pages == ServedOf("list")
    IN  /\ outcome["list"].state = "resolved"
        /\ Len(pages) = 3
        /\ \A i \in 1..3 : IsPage(pages[i])
        /\ pages[1].body.results.items = <<"a", "b">>
        /\ pages[2].body.results.items = <<"a">>
        /\ pages[3].body.results.items = <<"a", "b">>
        /\ outcome["list"].value = <<"a", "b", "a", "a", "b">>
        /\ Len(RequestsOf("list")) = 3

\* C7: at most one request of a fetch chain is outstanding, and the request
\* for page k+1 was issued after the answer for page k was received: it goes
\* to the continuation pointer that answer carried.
C7_OnePageAtATime ==
    \A c \in Chains :
        LET reqs == RequestsOf(c)
            pages == ServedOf(c)
        IN  /\ Cardinality({k \in 1..Len(frames[c]) : frames[c][k].state = "requested"}) <= 1
            /\ Len(reqs) <= Len(pages) + 1
            /\ Len(reqs) = Len(pages) + 1 <=>
                   (frames[c] # <<>> /\ frames[c][Len(frames[c])].state = "requested")
            /\ \A k \in 2..Len(reqs) :
                   /\ k - 1 <= Len(pages)
                   /\ HasPointer(pages[k - 1])
                   /\ reqs[k].url = pages[k - 1].body.next

\* The request for the third page is outstanding; two answers were received.
C7_Witness ==
    /\ Len(RequestsOf("list")) = 3
    /\ Len(ServedOf("list")) = 2
    /\ frames["list"][3].state = "requested"

\* C8 (safety): no result is delivered while the page received last carries a
\* continuation pointer.
C8_NoEarlyResult ==
    \A c \in Chains :
        outcome[c].state = "resolved" =>
            /\ ServedOf(c) # <<>>
            /\ ~HasPointer(ServedOf(c)[Len(ServedOf(c))])

\* An answer that was no parsed body with `d`: a transport failure, or a body
\* without the envelope.
Unanswered(c) ==
    \E i \in 1..Len(ServedOf(c)) : ~ServedOf(c)[i].ok \/ ~ServedOf(c)[i].body.d

\* C8: no result is delivered while the page received last carries a
\* continuation pointer; and a fetch whose requests are all answered with an
\* envelope, by a server that eventually leaves the pointer out, eventually
\* delivers a result.
C8_CompletesOnlyAtLastPage ==
    /\ []C8_NoEarlyResult
    /\ \A c \in Chains :
           (outcome[c].state = "pending") ~> (outcome[c].state = "resolved" \/ Unanswered(c))

\* A result was delivered after three pages.
C8_Witness ==
    /\ outcome["list"].state = "resolved"
    /\ Len(ServedOf("list")) = 3
    /\ ~Unanswered("list")
    /\ HasPointer(ServedOf("list")[2])

\* C9: when the transport has failed the request for page k, no request was
\* issued after it, no result is delivered, and what the caller is delivered
\* is that same error.
C9_FailurePropagates ==
    \A c \in Chains :
        \A k \in 1..Len(ServedOf(c)) :
            ~ServedOf(c)[k].ok =>
                /\ k = Len(ServedOf(c))
                /\ Len(RequestsOf(c)) = k
                /\ outcome[c].state \in {"pending", "rejected"}
                /\ outcome[c].state = "rejected" =>
                       /\ outcome[c].error = ServedOf(c)[k].error
                       /\ outcome[c].value = <<>>

\* The third page fails after two pages with rows; the caller has the error.
C9_Witness ==
    LET pages == ServedOf("list")
    IN  /\ Len(pages) = 3
        /\ IsPage(pages[1]) /\ pages[1].body.results.items # <<>>
        /\ IsPage(pages[2]) /\ pages[2].body.results.items # <<>>
        /\ ~pages[3].ok /\ pages[3].error = "StatusCodeError"
        /\ outcome["list"].state = "rejected"
        /\ outcome["list"].error = "StatusCodeError"

\* C10: the fetch delivers no result when an answer lacked `d`, or had `d`
\* without `results`.
C10_MalformedNeverSucceeds ==
    \A c \in Chains :
        outcome[c].state = "resolved" =>
            \A i \in 1..Len(ServedOf(c)) : IsPage(ServedOf(c)[i])

(***************************************************************************)
(* Properties of the files service.                                        *)
(***************************************************************************)
\* C19: getFiles() and getSubfolders() issue one request; what they return
\* is `d.results` of its answer, whether or not the answer carries a
\* continuation pointer, and no request follows.
C19_FirstPageOnly ==
    \A c \in FileChains :
        /\ Len(RequestsOf(c)) <= 1
        /\ Len(frames[c]) <= 1
        /\ (frames[c] # <<>> /\ frames[c][1].state = "resolved") =>
               /\ Len(RequestsOf(c)) = 1
               /\ Len(ServedOf(c)) = 1
               /\ frames[c][1].part = ServedOf(c)[1].body.results

\* getFiles() has returned the two rows of a first page that points to a next.
C19_Witness ==
    /\ frames["files"] # <<>>
    /\ frames["files"][1].state = "resolved"
    /\ ServedOf("files")[1].body.next = "u1"
    /\ frames["files"][1].part = [type |-> "array", items |-> <<"a", "b">>]
    /\ Len(RequestsOf("files")) = 1
    /\ RequestsOf("files")[1].url = "u0/Files"

(***************************************************************************)
(* Properties of getListWithAttachmentFiles().                             *)
(***************************************************************************)
\* The items of sharepointList, without their attachment files.
ItemsOf(list) == [i \in 1..Len(list) |-> list[i].row]

\* The number of attachment files each item carries.
AttachmentCounts(list) == [i \in 1..Len(list) |-> Len(list[i].AttachmentFiles.files)]

\* C11: when getListWithAttachmentFiles() is fulfilled, its value is the items
\* of the pages of the list in the order they were served, and every item
\* carries as AttachmentFiles the rows of all the pages served to the fetch
\* that started at the AttachmentFiles URL of that item's own Id, whatever the
\* order in which the fetches completed.
C11_AttachmentsInPlace ==
    attach.state = "resolved" =>
        /\ \A i \in 1..Len(ServedOf("list")) : IsPage(ServedOf("list")[i])
        /\ ItemsOf(attach.list) = RowsOf(ServedOf("list"))
        /\ \A i \in 1..Len(attach.list) :
               /\ attach.list[i].AttachmentFiles.loaded
               /\ RequestsOf(ItemChain(i))[1].url = AttachmentFilesUrl(attach.list[i].row)
               /\ \A j \in 1..Len(ServedOf(ItemChain(i))) : IsPage(ServedOf(ItemChain(i))[j])
               /\ attach.list[i].AttachmentFiles.files = RowsOf(ServedOf(ItemChain(i)))

\* Two items; the second, without attachment files, completes before the
\* first, which has two.
C11_Witness ==
    /\ attach.state = "resolved"
    /\ ItemsOf(attach.list) = <<"a", "b">>
    /\ AttachmentCounts(attach.list) = <<2, 0>>
    /\ attach.order = <<2, 1>>
\* A request of the fetch of the i-th item's attachment files has failed.
ItemFetchFailed(i) ==
    \E j \in 1..Len(ServedOf(ItemChain(i))) : ~ServedOf(ItemChain(i))[j].ok

\* C12: once the fetch of one item's attachment files has failed,
\* getListWithAttachmentFiles() is never fulfilled, so its caller never gets
\* the list, and it ends rejected, also when the other items got their files.
C12_OneFailureFailsAll ==
    /\ [](\A i \in 1..MaxItems : ItemFetchFailed(i) => attach.state # "resolved")
    /\ \A i \in 1..MaxItems : ItemFetchFailed(i) ~> attach.state = "rejected"

\* The fetch for the first item failed on its second page, the second item
\* has its files, and the call is rejected.
C12_Witness ==
    /\ attach.state = "rejected"
    /\ Len(ServedOf(ItemChain(1))) = 2
    /\ ItemFetchFailed(1)
    /\ Len(attach.list) = 2
    /\ attach.list[2].AttachmentFiles.loaded
    /\ ~attach.list[1].AttachmentFiles.loaded
\* The fetch of the i-th item's attachment files has been started and its
\* promise is not settled yet.
ItemFetchOutstanding(i) ==
    /\ frames[ItemChain(i)] # <<>>
    /\ frames[ItemChain(i)][1].state \notin {"resolved", "rejected"}

\* C13, as stated: when getListWithAttachmentFiles() has settled, fulfilled or
\* rejected, no fetch of an item's attachment files is outstanding.
C13_SettlesAfterEveryFetch ==
    attach.state \in {"resolved", "rejected"} =>
        \A i \in 1..MaxItems : ~ItemFetchOutstanding(i)

\* C13, amended: when getListWithAttachmentFiles() is fulfilled, the fetch of
\* every item's attachment files has completed and the item has its files; a
\* rejection may come while fetches of other items are outstanding.
C13_FulfilledAfterEveryFetch ==
    attach.state = "resolved" =>
        \A i \in 1..Len(attach.list) :
            /\ ~ItemFetchOutstanding(i)
            /\ frames[ItemChain(i)][1].state = "resolved"
            /\ \A k \in DOMAIN frames[ItemChain(i)] :
                   frames[ItemChain(i)][k].state = "resolved"
            /\ attach.list[i].AttachmentFiles.loaded

\* Fulfilled, for two items whose attachment files took two requests each.
C13_Witness ==
    /\ attach.state = "resolved"
    /\ Len(attach.list) = 2
    /\ \A i \in 1..2 : Len(RequestsOf(ItemChain(i))) = 2
\* C14: once the callback on the list has run, and so before the answer to
\* any attachment request is processed, the first attachment request of every
\* item of the list has been issued.
C14_AllIssuedAtOnce ==
    attach.list # <<>> =>
        \A i \in 1..Len(attach.list) :
            attach.list[i].row # Undefined => RequestsOf(ItemChain(i)) # <<>>
\* A request of the fetch of the list has failed.
ListFetchFailed ==
    \E j \in 1..Len(ServedOf("list")) : ~ServedOf("list")[j].ok

\* Every request of the fetch of the list is answered, the last one without
\* a continuation pointer.
ListComplete ==
    /\ ServedOf("list") # <<>>
    /\ Len(ServedOf("list")) = Len(RequestsOf("list"))
    /\ \A j \in 1..Len(ServedOf("list")) : ServedOf("list")[j].ok
    /\ ~HasPointer(ServedOf("list")[Len(ServedOf("list"))])

\* C15: an attachment request is issued only after the last page of the list
\* has been received; once a request of the list fetch has failed, no
\* attachment request is ever issued, getListWithAttachmentFiles() is never
\* fulfilled, and it ends rejected.
C15_AttachmentsAfterWholeList ==
    /\ [](\A c \in ItemChains : RequestsOf(c) # <<>> => ListComplete)
    /\ [](ListFetchFailed =>
              /\ \A c \in ItemChains : RequestsOf(c) = <<>>
              /\ attach.state # "resolved")
    /\ ListFetchFailed ~> attach.state = "rejected"

\* The list came in two pages, and the attachment requests of its two items
\* are out.
C15_Witness ==
    /\ Len(ServedOf("list")) = 2
    /\ Len(attach.list) = 2
    /\ \A i \in 1..2 : RequestsOf(ItemChain(i)) # <<>>
(***************************************************************************)
(* Properties of the token service and the list service together.          *)
(***************************************************************************)
\* The requests of the fetches of getListWithAttachmentFiles(): those of the
\* list and those of every item's attachment files.
AttachRequests ==
    UNION {{RequestsOf(c)[j] : j \in 1..Len(RequestsOf(c))} : c \in Chains \cup ItemChains}

\* C16: every request of a getListWithAttachmentFiles() call, for a page of the
\* list or of an item's attachment files, carries the access token a caller of
\* getToken() got and passed in, whatever the cache holds when the request is
\* issued.
C16_TokenOfTheCall ==
    attach.state # "idle" =>
        /\ \E c \in 1..Len(calls) :
               calls[c].got = "fulfilled" /\ attach.token = AccessTokenOf(calls[c].ret)
        /\ \A r \in AttachRequests : r.token = attach.token

\* The second page of the list was requested after a dropToken(), with the
\* cache empty, and the second page of the first item's attachment files
\* after a renewal, with the cache holding another token.
C16_Witness ==
    /\ Len(RequestsOf("list")) = 2
    /\ RequestsOf("list")[2].cache = Null
    /\ Len(RequestsOf(ItemChain(1))) = 2
    /\ RequestsOf(ItemChain(1))[2].cache # Null
    /\ isFulfilled(RequestsOf(ItemChain(1))[2].cache)
    /\ AccessTokenOf(RequestsOf(ItemChain(1))[2].cache) # attach.token
    /\ RequestsOf(ItemChain(1))[2].token = attach.token
====
